---- MODULE Spec2Model ----
(***************************************************************************)
(* Model of pymoo's abstract optimisation driver (pymoo/model/algorithm.py) *)
(* and of the epsilon-clearing selection (pymoo/util/clearing.py).          *)
(*                                                                          *)
(* Python None is the empty tuple; an optional value that is present is the *)
(* one-element tuple holding it.  Python indices are kept 0-based for the   *)
(* clearing engine (C, D, the entries of S); lists are TLA+ sequences.      *)
(***************************************************************************)
EXTENDS Integers, Sequences, FiniteSets

VARIABLES
    \* ---- Algorithm (the driver object and the run in progress) ----
    pc,            \* position of the run inside solve()/_solve()
    termination,   \* self.termination
    seed,          \* self.seed
    n_obj,         \* problem.n_obj of self.problem
    callback,      \* self.callback
    save_history,  \* self.save_history
    n_gen,         \* self.n_gen
    pop,           \* self.pop
    opt,           \* self.opt
    history,       \* self.history
    res,           \* the value solve() returned
    err,           \* the exception solve() raised
    calls,         \* how often each collaborator was called in this run
    \* ---- EpsilonClearing and select_by_clearing ----
    n,             \* self.n
    D,             \* self.D
    epsilon,       \* self.epsilon
    S,             \* self.S
    C,             \* self.C
    last,          \* the engine operation performed last
    cpc,           \* position inside select_by_clearing
    n_select,      \* argument n_select
    func_select,   \* argument func_select
    popF,          \* pop.get("F")[:, 0], by index
    remaining,     \* the local variable remaining
    resets         \* how often select_by_clearing called reset()

driverVars == <<pc, termination, seed, n_obj, callback, save_history, n_gen,
                pop, opt, history, res, err, calls>>
clearVars == <<n, D, epsilon, S, C, last, cpc, n_select, func_select, popF,
               remaining, resets>>
vars == <<pc, termination, seed, n_obj, callback, save_history, n_gen,
          pop, opt, history, res, err, calls,
          n, D, epsilon, S, C, last, cpc, n_select, func_select, popF,
          remaining, resets>>

None == <<>>
Some(v) == <<v>>
Val(o) == o[1]

\* ---- bounds ----
\* generations a termination criterion lets a run reach
MaxGen == 3
\* individuals in a final population
MaxPop == 2
\* individuals in an optimum set the algorithm maintains itself
MaxOpt == 1
\* size of a distance matrix
MaxN == 2
\* selections made on an engine driven call by call
MaxSel == 3

\* objective values, constraint violations, seeds, objective counts
ObjValues == 0..1
CVValues == 0..1
Seeds == 0..1
ObjCounts == {1, 2}
\* distances and thresholds in units of 0.05: 0.5 and 10.0; 1.0 and 0.05
DistValues == {10, 200}
Epsilons == {20}

(***************************************************************************)
(* Individuals and populations (the containers the driver indexes).        *)
(***************************************************************************)
Individual(x, f, cv) ==
    [X |-> x, F |-> f, CV |-> cv, G |-> <<cv>>, feasible |-> (cv <= 0)]

\* the populations of 1..len individuals with nobj objectives; X tells the
\* individuals of one population apart
Populations(nobj, len) ==
    UNION { { [i \in 1..l |-> Individual(i, fs[i], cs[i])] :
                fs \in [1..l -> [1..nobj -> ObjValues]],
                cs \in [1..l -> CVValues] } : l \in 1..len }

\* population[I] for a set I of (1-based) positions, in ascending order
RECURSIVE Take(_, _, _)
Take(p, I, i) ==
    IF i > Len(p) THEN <<>>
    ELSE IF i \in I THEN <<p[i]>> \o Take(p, I, i + 1)
    ELSE Take(p, I, i + 1)

Feasible(p) == Take(p, {i \in 1..Len(p) : p[i].feasible}, 1)

ArgMinLast(v) ==
    CHOOSE i \in 1..Len(v) :
        /\ \A j \in 1..Len(v) : v[i] <= v[j]
        /\ \A j \in (i + 1)..Len(v) : v[i] < v[j]

\* np.argmin: the first position holding the minimum
ArgMin(v) ==
    CHOOSE i \in 1..Len(v) :
        /\ \A j \in 1..Len(v) : v[i] <= v[j]
        /\ \A j \in 1..(i - 1) : v[i] < v[j]

Dominates(a, b) ==
    /\ \A m \in DOMAIN a : a[m] <= b[m]
    /\ \E m \in DOMAIN a : a[m] < b[m]

\* NonDominatedSorting().do(F, only_non_dominated_front=True)
NonDominatedFront(Fs) ==
    {i \in 1..Len(Fs) : ~ \E j \in 1..Len(Fs) : Dominates(Fs[j], Fs[i])}

Get(p, field) == [i \in 1..Len(p) |-> p[i][field]]

PoolOfPopOnly(population, own) == population

\* the candidates the optimum is taken from
Pool(population, own) == IF own = None THEN population ELSE Val(own)

MakeResultFlagged(o, population, hist, X, F, CV, G) ==
    [opt |-> o, no_solution |-> TRUE, pop |-> population, history |-> hist,
     X |-> X, F |-> F, CV |-> CV, G |-> G]

\* Result(opt, opt is None, "") with pop, history and the optimum's columns
MakeResult(o, population, hist, X, F, CV, G) ==
    [opt |-> o, no_solution |-> (o = None), pop |-> population,
     history |-> hist, X |-> X, F |-> F, CV |-> CV, G |-> G]

\* the tail of solve(): filter the feasible, reduce to the optimum
ExtractResult(population, own, nobj, hist) ==
    LET cand == Feasible(Pool(population, own)) IN
    IF Len(cand) > 0
    THEN IF nobj > 1
         THEN LET o == Take(cand, NonDominatedFront(Get(cand, "F")), 1) IN
              MakeResult(Some(o), population, hist,
                         Some(Get(o, "X")), Some(Get(o, "F")),
                         Some(Get(o, "CV")), Some(Get(o, "G")))
         ELSE LET o == cand[ArgMin([i \in 1..Len(cand) |-> cand[i].F[1]])] IN
              MakeResult(Some(o), population, hist,
                         Some(o.X), Some(o.F), Some(o.CV), Some(o.G))
    ELSE MakeResult(None, population, hist, None, None, None, None)

(***************************************************************************)
(* Algorithm.solve / Algorithm._solve                                       *)
(***************************************************************************)
\* header counts the bookkeeping passes made with first=True, continued the
\* do_continue calls that returned true
NoCalls ==
    [initialize |-> 0, each |-> 0, header |-> 0, do_continue |-> 0,
     continued |-> 0, next |-> 0, finalize |-> 0, callback |-> 0]

Called(what) == [calls EXCEPT ![what] = @ + 1]

NeverMissing(t) == FALSE

\* "if self.termination is None" in _solve
TerminationMissing(t) == t = "None"

\* what a hook may leave in self.opt (hooks of the run loop work on
\* populations of one individual)
OptAfterHook ==
    {opt, None} \cup {Some(p) : p \in Populations(n_obj, 1)}

SnapshotKept(h, snap, keep) == IF keep /\ Len(h) = 0 THEN Append(h, snap) ELSE h

\* the history list after one bookkeeping pass
HistoryAfter(h, snap, keep) == IF keep THEN Append(h, snap) ELSE h

CallbacksBeforeCopy == calls.callback

\* the callback invocations the driver has gone through when it is copied:
\* self.callback(self) comes before copy.deepcopy(self)
CallbacksAtCopy == calls.callback + (IF callback # "None" THEN 1 ELSE 0)

SnapshotWithCallback ==
    [n_gen |-> n_gen, seed |-> seed, save_history |-> save_history,
     seen |-> CallbacksAtCopy, history |-> None, callback |-> callback]

\* copy.deepcopy(self) taken while history and callback are None; the
\* populations are not carried in the copy; seen is what a callback that
\* records its invocations on the driver has left there
Snapshot ==
    [n_gen |-> n_gen, seed |-> seed, save_history |-> save_history,
     seen |-> CallbacksAtCopy, history |-> None, callback |-> "None"]

AfterInitializeSkip == "do_continue"

\* _solve after self.initialize(): the first bookkeeping pass
AfterInitialize == "each_first"

AfterContinueSkip(go) == IF go THEN "next" ELSE "extract"

\* _solve after do_continue: the loop body, or finalize() and the return
AfterContinue(go) == IF go THEN "next" ELSE "finalize"

AfterRaiseFinalize == "finalize"

\* an exception of a collaborator: nothing in _solve or solve catches it
AfterRaise == "raised"

\* solve() up to the first statements of _solve()
Solve ==
    /\ pc \in {"idle", "returned", "raised"}
    /\ \E t \in {"None", "criterion"}, sd \in {None} \cup {Some(s) : s \in Seeds},
          drawn \in Seeds, cb \in {"None", "callback"}, sh \in BOOLEAN,
          nobj \in ObjCounts :
         /\ seed' = Some(IF sd # None THEN Val(sd) ELSE drawn)
         /\ history' = Some(<<>>)
         /\ n_obj' = nobj
         /\ termination' = IF t # "None" THEN t ELSE termination
         /\ callback' = cb
         /\ save_history' = sh
         /\ res' = None
         /\ calls' = NoCalls
         /\ IF TerminationMissing(termination')
            THEN /\ pc' = "raised"
                 /\ err' = "No termination criterion defined"
                 /\ UNCHANGED n_gen
            ELSE /\ pc' = "initialize"
                 /\ err' = "None"
                 /\ n_gen' = 1
    /\ UNCHANGED <<pop, opt>>
    /\ UNCHANGED clearVars

\* self.pop = self.initialize()
Initialize ==
    /\ pc = "initialize"
    /\ calls' = Called("initialize")
    /\ \/ /\ pop' \in Populations(n_obj, 1)
          /\ opt' \in OptAfterHook
          /\ pc' = AfterInitialize
          /\ UNCHANGED err
       \/ /\ pc' = AfterRaise
          /\ err' = "initialize"
          /\ UNCHANGED <<pop, opt>>
    /\ UNCHANGED <<termination, seed, n_obj, callback, save_history, n_gen,
                   history, res>>
    /\ UNCHANGED clearVars

\* self._each_iteration(self, first=...)
EachIteration ==
    /\ pc \in {"each_first", "each"}
    /\ calls' = [calls EXCEPT !.each = @ + 1,
                              !.header = IF pc = "each_first" THEN @ + 1 ELSE @,
                              !.callback = IF callback # "None" THEN @ + 1 ELSE @]
    /\ \/ /\ history' = Some(HistoryAfter(Val(history), Snapshot, save_history))
          /\ pc' = "do_continue"
          /\ UNCHANGED err
       \/ /\ callback # "None"
          /\ pc' = AfterRaise
          /\ err' = "callback"
          /\ UNCHANGED history
    /\ UNCHANGED <<termination, seed, n_obj, callback, save_history, n_gen,
                   pop, opt, res>>
    /\ UNCHANGED clearVars

\* while self.termination.do_continue(self)
DoContinue ==
    /\ pc = "do_continue"
    /\ \/ \E go \in BOOLEAN :
            /\ go => n_gen < MaxGen
            /\ calls' = [calls EXCEPT !.do_continue = @ + 1,
                                      !.continued = IF go THEN @ + 1 ELSE @]
            /\ pc' = AfterContinue(go)
            /\ UNCHANGED err
       \/ /\ calls' = Called("do_continue")
          /\ pc' = AfterRaise
          /\ err' = "do_continue"
    /\ UNCHANGED <<termination, seed, n_obj, callback, save_history, n_gen,
                   pop, opt, history, res>>
    /\ UNCHANGED clearVars

\* self.n_gen += 1; self.pop = self.next()
NextGeneration ==
    /\ pc = "next"
    /\ n_gen' = n_gen + 1
    /\ calls' = Called("next")
    /\ \/ /\ pop' \in Populations(n_obj, 1)
          /\ opt' \in OptAfterHook
          /\ pc' = "each"
          /\ UNCHANGED err
       \/ /\ pc' = AfterRaise
          /\ err' = "next"
          /\ UNCHANGED <<pop, opt>>
    /\ UNCHANGED <<termination, seed, n_obj, callback, save_history,
                   history, res>>
    /\ UNCHANGED clearVars

\* self.finalize(); return self.pop
Finalize ==
    /\ pc = "finalize"
    /\ calls' = Called("finalize")
    /\ pc' = "extract"
    /\ UNCHANGED <<termination, seed, n_obj, callback, save_history, n_gen,
                   pop, opt, history, res, err>>
    /\ UNCHANGED clearVars

\* solve() from the return of _solve() to its own return
SolveReturn ==
    /\ pc = "extract"
    /\ res' = Some(ExtractResult(pop, opt, n_obj, Val(history)))
    /\ pc' = "returned"
    /\ UNCHANGED <<termination, seed, n_obj, callback, save_history, n_gen,
                   pop, opt, history, err, calls>>
    /\ UNCHANGED clearVars

\* no clearing engine exists while the driver is looked at
NoClearing ==
    /\ n = 0 /\ D = <<>> /\ epsilon = 0 /\ S = <<>> /\ C = <<>>
    /\ last = "none" /\ cpc = "none" /\ n_select = 0
    /\ func_select = "none" /\ popF = <<>> /\ remaining = <<>> /\ resets = 0

\* Algorithm.__init__
Init ==
    /\ pc = "idle"
    /\ termination = "None"
    /\ seed = None
    /\ n_obj = 1
    /\ callback = "None"
    /\ save_history = FALSE
    /\ n_gen = 0
    /\ pop = None
    /\ opt = None
    /\ history = None
    /\ res = None
    /\ err = "None"
    /\ calls = NoCalls
    /\ NoClearing

Next ==
    \/ Solve
    \/ Initialize
    \/ EachIteration
    \/ DoContinue
    \/ NextGeneration
    \/ Finalize
    \/ SolveReturn

Spec == Init /\ [][Next]_vars

\* a run that _solve() has just finished, on any final population and any
\* optimum set the algorithm kept
InitExtract ==
    /\ pc = "extract"
    /\ termination = "criterion"
    /\ seed = Some(0)
    /\ n_obj \in ObjCounts
    /\ callback = "None"
    /\ save_history = FALSE
    /\ n_gen = 1
    /\ pop \in Populations(n_obj, MaxPop)
    /\ opt \in {None} \cup {Some(p) : p \in Populations(n_obj, MaxOpt)}
    /\ history = Some(<<>>)
    /\ res = None
    /\ err = "None"
    /\ calls = [initialize |-> 1, each |-> 1, header |-> 1, do_continue |-> 1,
                continued |-> 0, next |-> 0, finalize |-> 1, callback |-> 0]
    /\ NoClearing

NextExtract == SolveReturn

ExtractSpec == InitExtract /\ [][NextExtract]_vars

(***************************************************************************)
(* EpsilonClearing                                                          *)
(***************************************************************************)
Indices(nn) == 0..(nn - 1)
Matrices(nn) == [Indices(nn) -> [Indices(nn) -> DistValues]]
Elements(sq) == {sq[i] : i \in 1..Len(sq)}

RECURSIVE Ascending(_, _, _)
Ascending(I, j, nn) ==
    IF j >= nn THEN <<>>
    ELSE IF j \in I THEN <<j>> \o Ascending(I, j + 1, nn)
    ELSE Ascending(I, j + 1, nn)

RemainingAll(Cm, nn) == Ascending(Indices(nn), 0, nn)

\* remaining(): np.where(~self.C)[0]
RemainingOf(Cm, nn) == Ascending({j \in Indices(nn) : ~ Cm[j]}, 0, nn)

\* has_remaining(): self.C.sum() != self.n
HasRemaining(Cm, nn) == Cardinality({j \in Indices(nn) : Cm[j]}) # nn

\* np.full(self.n, False)
NoneCleared(nn) == [j \in Indices(nn) |-> FALSE]

ClearedAfterResetAll(nn, Sq) == [j \in Indices(nn) |-> TRUE]

ClearedAfterResetNone(nn, Sq) == [j \in Indices(nn) |-> FALSE]

ClearedAfterResetKept(nn, Sq) == [j \in Indices(nn) |-> C[j] \/ j \in Elements(Sq)]

\* reset(): the mask holding exactly the selected indices
ClearedAfterReset(nn, Sq) == [j \in Indices(nn) |-> j \in Elements(Sq)]

ClearedAfterSelectFresh(Cm, Dm, eps, k) ==
    [j \in DOMAIN Cm |-> j = k \/ Dm[k][j] < eps]

ClearedAfterSelectNoSelf(Cm, Dm, eps, k) ==
    [j \in DOMAIN Cm |-> Cm[j] \/ Dm[k][j] < eps]

\* select(k): the mask with k and every index closer than epsilon to k set
ClearedAfterSelect(Cm, Dm, eps, k) ==
    [j \in DOMAIN Cm |-> Cm[j] \/ j = k \/ Dm[k][j] < eps]

\* the driver object is not touched while a clearing engine is looked at
DriverIdle ==
    /\ pc = "idle" /\ termination = "None" /\ seed = None /\ n_obj = 1
    /\ callback = "None" /\ save_history = FALSE /\ n_gen = 0
    /\ pop = None /\ opt = None /\ history = None /\ res = None
    /\ err = "None" /\ calls = NoCalls

\* EpsilonClearing.__init__ on any matrix
InitClearing ==
    /\ DriverIdle
    /\ n \in 1..MaxN
    /\ D \in Matrices(n)
    /\ epsilon \in Epsilons
    /\ S = <<>>
    /\ C = NoneCleared(n)
    /\ last = "init"
    /\ cpc = "caller"
    /\ n_select = 0 /\ func_select = "none" /\ popF = <<>>
    /\ remaining = <<>> /\ resets = 0

\* select(k) called by any caller
Select ==
    /\ cpc = "caller"
    /\ Len(S) < MaxSel
    /\ \E k \in Indices(n) :
         /\ S' = Append(S, k)
         /\ C' = ClearedAfterSelect(C, D, epsilon, k)
    /\ last' = "select"
    /\ UNCHANGED <<n, D, epsilon, cpc, n_select, func_select, popF, remaining,
                   resets>>
    /\ UNCHANGED driverVars

\* reset() called by any caller
Reset ==
    /\ cpc = "caller"
    /\ C' = ClearedAfterReset(n, S)
    /\ last' = "reset"
    /\ UNCHANGED <<n, D, epsilon, S, cpc, n_select, func_select, popF,
                   remaining, resets>>
    /\ UNCHANGED driverVars

NextClearing == Select \/ Reset

ClearingSpec == InitClearing /\ [][NextClearing]_vars

(***************************************************************************)
(* select_by_clearing                                                       *)
(***************************************************************************)
\* func_select_by_objective on pop[remaining]; positions are counted from 1
FuncSelectByObjective(Fsub) == ArgMin(Fsub)

\* the positions func_select may return for the candidates rem
Positions(fs, rem) ==
    IF fs = "func_select_by_objective"
    THEN {FuncSelectByObjective([i \in 1..Len(rem) |-> popF[rem[i]]])}
    ELSE 1..Len(rem)

\* the all-10 matrix of five points, epsilon 0.05, three selections
FiveByFive ==
    /\ n = 5
    /\ D = [i \in Indices(5) |-> [j \in Indices(5) |-> 200]]
    /\ epsilon = 1
    /\ n_select = 3
    /\ func_select = "func_select_by_objective"
    /\ popF \in [Indices(5) -> 0..2]

\* select_by_clearing entered: the engine is built, the loop not yet tested
InitSelect ==
    /\ DriverIdle
    /\ \/ /\ n \in 1..MaxN
          /\ D \in Matrices(n)
          /\ epsilon \in Epsilons
          /\ n_select \in 0..(n + 1)
          /\ \/ /\ func_select = "func_select_by_objective"
                /\ popF \in [Indices(n) -> ObjValues]
             \/ /\ func_select = "any"
                /\ popF = [j \in Indices(n) |-> 0]
       \/ FiveByFive
    /\ S = <<>>
    /\ C = NoneCleared(n)
    /\ last = "init"
    /\ cpc = "while"
    /\ remaining = <<>>
    /\ resets = 0

\* while len(clearing.selected()) < n_select: remaining = clearing.remaining()
\* and, the test failing, return S
LoopTest ==
    /\ cpc = "while"
    /\ IF Len(S) < n_select
       THEN /\ remaining' = RemainingOf(C, n)
            /\ cpc' = IF Len(remaining') = 0 THEN "reset" ELSE "pick"
       ELSE /\ cpc' = "done"
            /\ UNCHANGED remaining
    /\ UNCHANGED <<n, D, epsilon, S, C, last, n_select, func_select, popF,
                   resets>>
    /\ UNCHANGED driverVars

\* if len(remaining) == 0: clearing.reset()
LoopReset ==
    /\ cpc = "reset"
    /\ C' = ClearedAfterReset(n, S)
    /\ last' = "reset"
    /\ resets' = resets + 1
    /\ cpc' = "pick"
    /\ UNCHANGED <<n, D, epsilon, S, n_select, func_select, popF, remaining>>
    /\ UNCHANGED driverVars

\* best = remaining[func_select(pop[remaining])]; clearing.select(best)
\* (no position exists in an empty remaining: the scorer or the indexing raises)
LoopPick ==
    /\ cpc = "pick"
    /\ IF Len(remaining) = 0
       THEN /\ cpc' = "error"
            /\ UNCHANGED <<S, C, last>>
       ELSE /\ \E pos \in Positions(func_select, remaining) :
                 /\ S' = Append(S, remaining[pos])
                 /\ C' = ClearedAfterSelect(C, D, epsilon, remaining[pos])
            /\ last' = "select"
            /\ cpc' = "while"
    /\ UNCHANGED <<n, D, epsilon, n_select, func_select, popF, remaining,
                   resets>>
    /\ UNCHANGED driverVars

NextSelect == LoopTest \/ LoopReset \/ LoopPick

SelectSpec == InitSelect /\ [][NextSelect]_vars

\* the call runs on: a statement that can be executed is executed
SelectFairSpec == InitSelect /\ [][NextSelect]_vars /\ WF_vars(NextSelect)

(***************************************************************************)
(* Properties of the driver                                                *)
(***************************************************************************)
\* the candidates of the optimum in the current state, and their feasibility
CandidatePool == IF opt = None THEN pop ELSE Val(opt)
HasFeasible(p) == \E i \in 1..Len(p) : p[i].feasible
Populated(r) == r.X # None /\ r.F # None /\ r.CV # None /\ r.G # None
Absent(r) == r.X = None /\ r.F = None /\ r.CV = None /\ r.G = None

\* C1: a run with no termination criterion, neither passed nor kept on the
\* driver, raises "No termination criterion defined" before any hook is
\* called: no initialization, bookkeeping, advancement or finalization happens
\* and nothing is returned; a run gets past that point only with a criterion.
C1_NoTerminationRaises ==
    /\ pc = "raised" /\ termination = "None" =>
         /\ err = "No termination criterion defined"
         /\ calls = NoCalls
         /\ res = None
    /\ err = "No termination criterion defined" =>
         pc = "raised" /\ termination = "None"
    /\ pc \notin {"idle", "raised"} => termination # "None" /\ err = "None"

C1_Witness == pc = "raised" /\ termination = "None" /\ history = Some(<<>>)

\* C2: a returned Result's history has one snapshot per generation when
\* save_history is set, its length being the generation counter, which is one
\* more than the number of advancement calls; otherwise it is empty.
C2_HistoryLength ==
    pc = "returned" =>
        LET h == Val(res).history IN
        IF save_history
        THEN Len(h) = n_gen /\ n_gen = 1 + calls.next
        ELSE h = <<>>

C2_Witness ==
    /\ pc = "returned" /\ save_history /\ n_gen >= 2
    /\ Len(Val(res).history) = n_gen

\* C3 as stated: no feasible individual in the final population means the
\* Result has no optimum and its no-solution flag is set.
C3_Original ==
    pc = "returned" /\ ~ HasFeasible(pop) =>
        Absent(Val(res)) /\ Val(res).no_solution

\* C3 amended: no feasible individual among the candidates (the algorithm's own
\* opt when it keeps one, else the final population) means the Result has no
\* optimum and its no-solution flag is set.
C3_NoFeasibleCandidate ==
    pc = "returned" /\ ~ HasFeasible(CandidatePool) =>
        Absent(Val(res)) /\ Val(res).opt = None /\ Val(res).no_solution

C3_Witness ==
    /\ pc = "returned" /\ opt # None
    /\ ~ HasFeasible(CandidatePool) /\ HasFeasible(pop)
    /\ Val(res).no_solution

\* C4: X, F, CV and G of a returned Result are set exactly when some candidate
\* is feasible; with none they are absent and the no-solution flag is set, the
\* run returning normally; the flag is set in no other case.
C4_PopulatedIffFeasible ==
    pc = "returned" =>
        LET r == Val(res) IN
        /\ err = "None"
        /\ Populated(r) <=> HasFeasible(CandidatePool)
        /\ Absent(r) <=> ~ HasFeasible(CandidatePool)
        /\ r.no_solution <=> ~ HasFeasible(CandidatePool)

C4_Witness ==
    /\ pc = "returned" /\ n_obj > 1 /\ HasFeasible(CandidatePool)
    /\ \E i \in 1..Len(CandidatePool) : ~ CandidatePool[i].feasible
    /\ Populated(Val(res)) /\ ~ Val(res).no_solution

\* C5: with one objective and a feasible candidate, the Result holds a single
\* individual: a feasible candidate whose objective is no larger than that of
\* any feasible candidate, and the first such in the candidates' order.
C5_SingleObjectiveMinimum ==
    pc = "returned" /\ n_obj = 1 /\ HasFeasible(CandidatePool) =>
        LET r == Val(res)
            p == CandidatePool
        IN  /\ r.opt # None
            /\ \E i \in 1..Len(p) :
                 /\ Val(r.opt) = p[i] /\ p[i].feasible
                 /\ r.X = Some(p[i].X) /\ r.F = Some(p[i].F)
                 /\ r.CV = Some(p[i].CV) /\ r.G = Some(p[i].G)
                 /\ \A j \in 1..Len(p) : p[j].feasible => p[i].F[1] <= p[j].F[1]
                 /\ \A j \in 1..(i - 1) : p[j].feasible => p[i].F[1] < p[j].F[1]

C5_Witness ==
    /\ pc = "returned" /\ n_obj = 1 /\ opt = None /\ Len(pop) = 2
    /\ pop[1].feasible /\ pop[2].feasible /\ pop[1].F = pop[2].F
    /\ Val(res).X = Some(1)

(***************************************************************************)
(* Properties of the clearing engine and of select_by_clearing             *)
(***************************************************************************)
\* C6: for n_select <= n and a scorer that returns a valid position,
\* select_by_clearing ends normally, with exactly n_select selected indices.
C6_ReturnsNSelect ==
    n_select <= n =>
        /\ cpc # "error"
        /\ cpc = "done" => Len(S) = n_select

\* the case of C7: two points at mutual distance 0.5, epsilon 1.0, two
\* selections, index 0 picked first
TwoClosePoints ==
    /\ n = 2 /\ D[0][1] = 10 /\ D[1][0] = 10 /\ epsilon = 20
    /\ n_select = 2
    /\ Len(S) >= 1 => S[1] = 0

\* C7: on two points closer than epsilon, with index 0 picked first, the call
\* returns [0, 1], index 1 being picked right after the one reset that the
\* empty remaining() forced.
C7_PickAfterReset ==
    TwoClosePoints /\ cpc \in {"done", "error"} =>
        cpc = "done" /\ S = <<0, 1>> /\ resets = 1

\* C8: select(k) appends k to the selected list, leaves k and every index
\* closer than epsilon to k out of remaining(), and un-clears nothing.
C8_SelectClears ==
    [][last' = "select" /\ S' # S =>
         LET k == S'[Len(S')]
             rem == Elements(RemainingOf(C', n))
         IN  /\ S' = Append(S, k)
             /\ k \notin rem
             /\ \A j \in Indices(n) : D[k][j] < epsilon => j \notin rem
             /\ \A j \in Indices(n) : C[j] => C'[j] /\ j \notin rem]_vars

C8_Witness ==
    /\ last = "select" /\ Len(S) = 2 /\ S[1] # S[2]
    /\ D[S[1]][S[2]] < epsilon /\ D[S[2]][S[1]] >= epsilon
    /\ C[S[1]] /\ C[S[2]]

\* C9: reset() leaves the selected list and the matrix as they are, and every
\* index that was in remaining() is still in it.
C9_ResetKeepsSelected ==
    [][last' = "reset" =>
         /\ S' = S
         /\ D' = D
         /\ Elements(RemainingOf(C, n)) \subseteq Elements(RemainingOf(C', n))]_vars

C9_Witness ==
    /\ last = "reset" /\ Len(S) >= 1
    /\ \E j \in Indices(n) : ~ C[j] /\ D[S[1]][j] < epsilon
    /\ \E j \in Indices(n) : C[j]

\* how many indices come before j when ordered by objective, then by index
Rank(j) ==
    Cardinality({i \in Indices(n) :
                   popF[i] < popF[j] \/ (popF[i] = popF[j] /\ i < j)})

AllFar == \A i \in Indices(n) : \A j \in Indices(n) : D[i][j] >= epsilon

\* C10: when no entry of D is below epsilon and n_select <= n, the call never
\* resets, the cleared indices are exactly the picked ones, every pick is made
\* among the not yet picked indices in ascending order, and with the default
\* scorer the result lists the n_select indices of lowest first objective in
\* ascending objective order (so for the 5x5 all-10 matrix and 3 selections).
C10_NoClearingWhenFar ==
    AllFar /\ n_select <= n =>
        /\ resets = 0 /\ cpc \notin {"reset", "error"}
        /\ \A j \in Indices(n) : C[j] <=> j \in Elements(S)
        /\ cpc = "pick" =>
             remaining = Ascending(Indices(n) \ Elements(S), 0, n)
        /\ func_select = "func_select_by_objective" =>
             \A m \in 1..Len(S) : Rank(S[m]) = m - 1
        /\ cpc = "done" => Len(S) = n_select

C10_Witness ==
    /\ FiveByFive /\ cpc = "done" /\ Len(S) = 3
    /\ popF[0] = 2 /\ popF[1] = 1 /\ popF[2] = 1 /\ popF[3] = 0 /\ popF[4] = 2
    /\ S = <<3, 1, 2>>
\* C11: select(k) appends k only when k is in remaining(), that is not yet
\* cleared; a call with a cleared index fails and appends nothing.
C11_SelectOnlyRemaining ==
    [][S' # S => ~ C[S'[Len(S')]]]_vars
\* C17: on an engine driven by any select and reset calls, every selected
\* index is cleared, so none of them is in remaining(), and has_remaining()
\* is true exactly when remaining() is not empty.
C17_SelectedAreCleared ==
    cpc = "caller" =>
        /\ \A i \in 1..Len(S) : C[S[i]]
        /\ Elements(S) \cap Elements(RemainingOf(C, n)) = {}
        /\ HasRemaining(C, n) <=> Len(RemainingOf(C, n)) > 0

C17_Witness ==
    /\ cpc = "caller" /\ last = "reset" /\ Len(S) >= 2
    /\ HasRemaining(C, n) /\ S[1] \notin Elements(RemainingOf(C, n))

\* C18: right after reset() the mask is set at exactly the indices in S; on a
\* fresh engine it is clear everywhere.
C18_ResetMaskIsSelected ==
    last = "reset" =>
        /\ \A j \in Indices(n) : C[j] <=> \E i \in 1..Len(S) : S[i] = j
        /\ S = <<>> => \A j \in Indices(n) : ~ C[j]

C18_Witness ==
    /\ cpc = "caller" /\ last = "reset" /\ Len(S) >= 1
    /\ \E j \in Indices(n) : ~ C[j] /\ D[S[1]][j] < epsilon
\* the indices of S are pairwise different
NoRepeat(sq) == \A a \in 1..Len(sq) : \A b \in 1..Len(sq) : sq[a] = sq[b] => a = b

\* C12: with n_select > n the call ends in an error: it does not run forever,
\* it never returns (so never a sequence shorter than n_select or with a
\* repeated index), and once all n indices are selected no further pick is made.
C12_TooManyFailsFast ==
    /\ [](n_select > n =>
            /\ cpc # "done"
            /\ NoRepeat(S) /\ Len(S) <= n
            /\ Len(S) = n /\ cpc = "pick" => remaining = <<>>)
    /\ (n_select > n ~> cpc = "error")

C12_Witness ==
    /\ n_select > n /\ cpc = "error" /\ Len(S) = n /\ n = 2
    /\ resets = 1

\* C20: every index select_by_clearing passes to select() is not cleared at the
\* moment of the call; so S never holds an index twice and never more than n
\* indices, in executions that end in an error too.
C20_PicksFromRemaining ==
    [][S' # S =>
         LET k == S'[Len(S')] IN
         /\ S' = Append(S, k)
         /\ k \in Indices(n) /\ ~ C[k]
         /\ NoRepeat(S') /\ Len(S') <= n]_vars

C20_Witness ==
    /\ cpc = "error" /\ Len(S) >= 1 /\ Len(S) < n /\ NoRepeat(S)
(***************************************************************************)
(* Properties of the generation loop                                       *)
(***************************************************************************)
\* C14: in a run, initialize is called once and followed by the one header
\* pass before do_continue is first called; do_continue is called once per
\* generation; next() is called only after a do_continue that returned true
\* and with the counter incremented, and is followed by one pass; at the end
\* do_continue calls = passes = generation counter = 1 + next() calls.
C14_LoopOrder ==
    LET c == calls
        g == n_gen
    IN  /\ pc = "initialize" => c = NoCalls /\ g = 1
        /\ pc = "each_first" => c = [NoCalls EXCEPT !.initialize = 1] /\ g = 1
        /\ pc \in {"do_continue", "next", "each", "finalize", "extract",
                   "returned"} => c.initialize = 1 /\ c.header = 1
        /\ pc = "do_continue" =>
             /\ c.each = g /\ c.do_continue = g - 1
             /\ c.continued = g - 1 /\ c.next = g - 1
        /\ pc = "next" =>
             /\ c.each = g /\ c.do_continue = g
             /\ c.continued = g /\ c.next = g - 1
        /\ pc = "each" =>
             /\ g >= 2 /\ c.each = g - 1 /\ c.do_continue = g - 1
             /\ c.continued = g - 1 /\ c.next = g - 1
        /\ pc \in {"finalize", "extract", "returned"} =>
             /\ c.do_continue = g /\ c.each = g /\ g = 1 + c.next
             /\ c.continued = c.next

C14_Witness ==
    /\ pc = "returned" /\ n_gen = 3 /\ calls.next = 2 /\ calls.each = 3
    /\ calls.do_continue = 3 /\ calls.header = 1

C14_WitnessImmediate ==
    /\ pc = "returned" /\ n_gen = 1 /\ calls.next = 0 /\ calls.each = 1
    /\ calls.do_continue = 1 /\ calls.header = 1

\* C15: finalize runs once per completed run, right after the first
\* do_continue that returned false; no next(), pass or do_continue comes after
\* it, and Result.pop is the population the driver holds from the last hook.
C15_FinalizeOnce ==
    /\ pc \in {"initialize", "each_first", "each", "do_continue", "next",
               "finalize"} => calls.finalize = 0
    /\ pc = "finalize" => calls.do_continue = calls.continued + 1
    /\ pc \in {"extract", "returned"} =>
         /\ calls.finalize = 1
         /\ calls.do_continue = calls.continued + 1
         /\ calls.each = n_gen /\ calls.next = n_gen - 1
         /\ calls.continued = calls.next
    /\ pc = "returned" => Val(res).pop = pop /\ pop # None

C15_Witness ==
    /\ pc = "returned" /\ calls.finalize = 1 /\ n_gen >= 2
    /\ Val(res).pop = pop

\* C16: a bookkeeping pass leaves callback as it was and calls it once if it
\* is set; with history tracking it appends one snapshot, taken after the
\* callback ran, whose history and callback are None and whose generation
\* counter is its position in the list; earlier snapshots stay as they were;
\* without history tracking the list is not changed.
C16_BookkeepingPass ==
    [][calls'.each = calls.each + 1 /\ pc' = "do_continue" =>
         /\ callback' = callback
         /\ calls'.callback =
              calls.callback + (IF callback # "None" THEN 1 ELSE 0)
         /\ IF save_history
            THEN LET h == Val(history')
                     snap == h[Len(h)]
                 IN  /\ Len(h) = Len(Val(history)) + 1
                     /\ SubSeq(h, 1, Len(h) - 1) = Val(history)
                     /\ snap.history = None /\ snap.callback = "None"
                     /\ snap.n_gen = n_gen /\ snap.n_gen = Len(h)
                     /\ snap.seen = calls'.callback
            ELSE history' = history]_vars

C16_Witness ==
    /\ pc = "do_continue" /\ save_history /\ callback # "None"
    /\ history # None /\ Len(Val(history)) = 2 /\ calls.callback = 2
    /\ \A i \in 1..2 : Val(history)[i].n_gen = i /\ Val(history)[i].seen = i

\* C19: an exception of the initialization hook, the advancement hook, the
\* termination criterion or the callback ends the run: nothing is returned,
\* finalize is not called, and the collaborator that raised was not called
\* again nor any other after it.
C19_ErrorsPropagate ==
    /\ err \notin {"None", "No termination criterion defined"} =>
         /\ pc = "raised" /\ res = None /\ calls.finalize = 0
         /\ err = "initialize" => calls = [NoCalls EXCEPT !.initialize = 1]
         /\ err = "callback" =>
              /\ calls.each = n_gen /\ calls.callback = n_gen
              /\ calls.do_continue = n_gen - 1 /\ calls.next = n_gen - 1
              /\ save_history => Len(Val(history)) = n_gen - 1
         /\ err = "do_continue" =>
              /\ calls.do_continue = n_gen /\ calls.each = n_gen
              /\ calls.next = n_gen - 1
         /\ err = "next" =>
              /\ calls.next = n_gen - 1 /\ calls.each = n_gen - 1
              /\ calls.do_continue = n_gen - 1
    /\ pc \in {"finalize", "extract", "returned"} => err = "None"

C19_Witness ==
    /\ pc = "raised" /\ err = "next" /\ n_gen = 3 /\ calls.next = 2
    /\ res = None /\ calls.finalize = 0

====
